---- MODULE Spec2Model ----
(***************************************************************************)
(* A model of src/main.rs: MyRenderPlugin (build / finish), the pipeline   *)
(* description queued by MyRenderPipeline::from_world, the per-frame       *)
(* prepare_bind_group system and the render-graph node MyRenderNode        *)
(* (update / run).  The host engine is the environment: it calls build and *)
(* finish once, then per frame runs the main schedule (Startup first),     *)
(* extraction, the Prepare set, the pipeline-cache queue, the graph update *)
(* and the graph run, and it loads the shader asset asynchronously.        *)
(***************************************************************************)
EXTENDS Integers, Sequences, FiniteSets, TLC

VARIABLES
    pc,             \* position of the application / of MyRenderNode::run
    panicAt,        \* the call that panicked, "" while running
    frame,          \* number of the frame in progress (0 before the first)
    platform,       \* build target, decides TextureFormat::bevy_default()
    shader,         \* load state of the asset "shader.wgsl"
    cache,          \* PipelineCache: sequence of [descriptor, state]
    device,         \* RenderDevice: counts of the objects it created
    mainWorld,      \* main world: MyRender resource, camera entities
    renderWorld,    \* render world: resources and this frame's view targets
    graph,          \* render graph: names of the nodes added
    node,           \* MyRenderNode: archetypes its QueryState has matched
    view,           \* the view target run has acquired (Option)
    pass,           \* the render pass of the running node
    log,            \* commands recorded into the frame's command encoder
    submitted,      \* number of frames whose commands were submitted
    built,          \* pipeline handles returned by from_world, in order
    env             \* the host application around the plugin

vars == <<pc, panicAt, frame, platform, shader, cache, device, mainWorld,
          renderWorld, graph, node, view, pass, log, submitted, built, env>>

----------------------------------------------------------------------------
(* Bounds of the model *)

MaxFrames == 3
MaxHostPipelines == 3
MaxEnvCameras == 2
MaxBuilds == 4

----------------------------------------------------------------------------
(* Option values *)

None == <<>>
Some(x) == <<x>>
IsSome(o) == Len(o) = 1
Unwrap(o) == o[1]

----------------------------------------------------------------------------
(* Values of the host API that the program names *)

Platforms == {"native", "wasm_or_android"}

\* TextureFormat::bevy_default(): fixed by the build target
bevy_default(p) == IF p = "native" THEN "Bgra8UnormSrgb" ELSE "Rgba8UnormSrgb"

\* Color::BLACK converted with .into()
ColorBLACK == [r |-> 0, g |-> 0, b |-> 0, a |-> 1]

\* size in bytes of one attribute of a vertex format
FormatSize(f) ==
    CASE f = "Float32" -> 4
      [] f = "Float32x2" -> 8
      [] f = "Float32x3" -> 12
      [] f = "Float32x4" -> 16

\* little-endian IEEE-754 single precision bytes of the coordinates used
F32Bytes(x) ==
    CASE x = 1 -> <<0, 0, 128, 63>>
      [] x = -1 -> <<0, 0, 128, 191>>
      [] x = 0 -> <<0, 0, 0, 0>>

\* Vec2::new(x, y)
Vec2(x, y) == [x |-> x, y |-> y]

RECURSIVE cast_slice(_)
\* bytemuck::cast_slice(&[Vec2]): the vertices' floats, x then y, as bytes
cast_slice(vs) ==
    IF vs = <<>> THEN <<>>
    ELSE F32Bytes(Head(vs).x) \o F32Bytes(Head(vs).y) \o cast_slice(Tail(vs))

\* half-open range a..b of a draw call
Range(a, b) == [start |-> a, end |-> b]
RangeLen(r) == IF r.end > r.start THEN r.end - r.start ELSE 0

----------------------------------------------------------------------------
(* MyRenderPipeline::from_world *)

ShaderPath == "shader.wgsl"

\* the shader asset handle AssetServer::load returns for a path
LoadHandle(path) == [path |-> path]

\* mutant: the stride of a three-float vertex
MyRenderPipelineDescriptorStride12(p) ==
    [ label |-> "my_render_pipeline",
      layout |-> <<>>,
      push_constant_ranges |-> <<>>,
      primitive |-> [topology |-> "TriangleStrip"],
      vertex |->
        [ shader |-> LoadHandle(ShaderPath),
          entry_point |-> "vertex",
          shader_defs |-> <<>>,
          buffers |->
            << [ array_stride |-> 4 * 3,
                 step_mode |-> "Vertex",
                 attributes |->
                   << [ format |-> "Float32x2",
                        offset |-> 0,
                        shader_location |-> 0 ] >> ] >> ],
      fragment |->
        Some([ shader |-> LoadHandle(ShaderPath),
               entry_point |-> "fragment",
               shader_defs |-> <<>>,
               targets |->
                 << Some([ format |-> bevy_default(p),
                           blend |-> Some("REPLACE"),
                           write_mask |-> "ALL" ]) >> ]),
      depth_stencil |-> None,
      multisample |->
        [count |-> 1, mask |-> "all_ones", alpha_to_coverage_enabled |-> FALSE] ]

\* the RenderPipelineDescriptor that from_world queues
MyRenderPipelineDescriptor(p) ==
    [ label |-> "my_render_pipeline",
      layout |-> <<>>,
      push_constant_ranges |-> <<>>,
      primitive |-> [topology |-> "TriangleStrip"],
      vertex |->
        [ shader |-> LoadHandle(ShaderPath),
          entry_point |-> "vertex",
          shader_defs |-> <<>>,
          buffers |->
            << [ array_stride |-> 4 * 2,
                 step_mode |-> "Vertex",
                 attributes |->
                   << [ format |-> "Float32x2",
                        offset |-> 0,
                        shader_location |-> 0 ] >> ] >> ],
      fragment |->
        Some([ shader |-> LoadHandle(ShaderPath),
               entry_point |-> "fragment",
               shader_defs |-> <<>>,
               targets |->
                 << Some([ format |-> bevy_default(p),
                           blend |-> Some("REPLACE"),
                           write_mask |-> "ALL" ]) >> ]),
      depth_stencil |-> None,
      multisample |->
        [count |-> 1, mask |-> "all_ones", alpha_to_coverage_enabled |-> FALSE] ]

\* PipelineCache::queue_render_pipeline: a new entry, its index is the handle
queue_render_pipeline(c, d) ==
    [cache |-> Append(c, [descriptor |-> d, state |-> "Queued"]), id |-> Len(c)]

\* RenderDevice::create_bind_group_layout with no entries
create_bind_group_layout(dev) ==
    [ device |-> [dev EXCEPT !.layouts = @ + 1],
      layout |-> [id |-> dev.layouts, entries |-> <<>>] ]

\* mutant: a description that depends on what the cache already holds
from_world_descriptor_by_cache(c, p) ==
    [MyRenderPipelineDescriptor(p) EXCEPT
        !.primitive.topology =
            IF Len(c) % 2 = 0 THEN "TriangleStrip" ELSE "TriangleList"]

\* the pipeline description from_world builds from the world
from_world_descriptor(c, p) == MyRenderPipelineDescriptor(p)

\* from_world(world): the resource, and the device and cache it leaves behind
from_world(dev, c, p) ==
    LET l == create_bind_group_layout(dev)
        q == queue_render_pipeline(c, from_world_descriptor(c, p))
    IN  [ device |-> l.device,
          cache |-> q.cache,
          resource |-> [bind_group_layout |-> l.layout, render_pipeline |-> q.id] ]

\* PipelineCache::get_render_pipeline: the pipeline once it is compiled
get_render_pipeline(c, id) ==
    IF id + 1 \in DOMAIN c /\ c[id + 1].state = "Ok"
    THEN Some(c[id + 1].descriptor)
    ELSE None

\* a pipeline another plugin of the host application queued
HostDescriptor(p) ==
    [MyRenderPipelineDescriptor(p) EXCEPT
        !.label = "host_pipeline",
        !.vertex.shader = LoadHandle("host.wgsl"),
        !.primitive.topology = "TriangleList"]

RECURSIVE HostCache(_, _)
HostCache(n, p) ==
    IF n = 0 THEN <<>>
    ELSE Append(HostCache(n - 1, p), [descriptor |-> HostDescriptor(p), state |-> "Ok"])

\* the host's pipeline-cache queue processing: an entry whose shader is
\* loaded is compiled
process_queue(c, sh) ==
    [ i \in DOMAIN c |->
        IF c[i].state = "Queued"
           /\ (c[i].descriptor.vertex.shader.path # ShaderPath \/ sh = "loaded")
        THEN [c[i] EXCEPT !.state = "Ok"]
        ELSE c[i] ]

----------------------------------------------------------------------------
(* prepare_bind_group *)

\* the three vertices prepare_bind_group uploads
Verts == << Vec2(-1, -1), Vec2(1, -1), Vec2(1, 1) >>

\* RenderDevice::create_buffer_with_data
create_buffer_with_data(dev, contents, usage) ==
    [ device |-> [dev EXCEPT !.buffers = @ + 1],
      buffer |-> [id |-> dev.buffers + 1, contents |-> contents, usage |-> usage] ]

\* RenderDevice::create_bind_group with no entries
create_bind_group(dev, layout) ==
    [ device |-> [dev EXCEPT !.bind_groups = @ + 1],
      bind_group |-> [id |-> dev.bind_groups + 1, layout |-> layout, entries |-> <<>>] ]

\* mutant: the buffer and the bind group are made but never inserted
prepare_bind_group_no_insert(dev, rw) ==
    LET b == create_buffer_with_data(dev, cast_slice(Verts), "VERTEX")
        g == create_bind_group(b.device, Unwrap(rw.pipeline).bind_group_layout)
    IN  [device |-> g.device, renderWorld |-> rw]

\* mutant: the system does its work only while the resource is absent
prepare_bind_group_once(dev, rw) ==
    IF IsSome(rw.bindings)
    THEN [device |-> dev, renderWorld |-> rw]
    ELSE LET b == create_buffer_with_data(dev, cast_slice(Verts), "VERTEX")
             g == create_bind_group(b.device, Unwrap(rw.pipeline).bind_group_layout)
         IN  [ device |-> g.device,
               renderWorld |->
                 [rw EXCEPT !.bindings =
                     Some([vertex_buffer |-> b.buffer, bind_group |-> g.bind_group])] ]

\* the system's body: a new buffer and a new bind group, inserted as the
\* MyRenderBindings resource (replacing the one of the frame before)
prepare_bind_group(dev, rw) ==
    LET b == create_buffer_with_data(dev, cast_slice(Verts), "VERTEX")
        g == create_bind_group(b.device, Unwrap(rw.pipeline).bind_group_layout)
    IN  [ device |-> g.device,
          renderWorld |->
            [rw EXCEPT !.bindings =
                Some([vertex_buffer |-> b.buffer, bind_group |-> g.bind_group])] ]

----------------------------------------------------------------------------
(* Helpers of the actions *)

Panic(at) == pc' = "panicked" /\ panicAt' = at

\* one command recorded into the frame's command encoder
Record(cmd) == log' = Append(log, cmd)

NoDevice == [layouts |-> 0, buffers |-> 0, bind_groups |-> 0]

InitWorld(start) ==
    /\ pc = start
    /\ panicAt = ""
    /\ frame = 0
    /\ platform \in Platforms
    /\ shader = "unrequested"
    /\ \E n \in 0..MaxHostPipelines : cache = HostCache(n, platform)
    /\ device = NoDevice
    /\ renderWorld = [ MyRender |-> FALSE, prepare_registered |-> FALSE,
                       pipeline |-> None, bindings |-> None,
                       view_targets |-> 0, view_archetype |-> FALSE ]
    /\ graph = {}
    /\ node = None
    /\ view = None
    /\ pass = [open |-> FALSE]
    /\ log = <<>>
    /\ submitted = 0
    /\ built = <<>>

\* main(): the only cameras are those setup spawns, and setup is a Startup system
Init ==
    /\ InitWorld("new")
    /\ env = [cameras |-> 0, setup |-> TRUE]
    /\ mainWorld = [MyRender |-> FALSE, cameras |-> 0, started |-> FALSE]

----------------------------------------------------------------------------
(* MyRenderPlugin *)

\* Plugin::build
Build ==
    /\ pc = "new"
    /\ mainWorld' = [mainWorld EXCEPT !.MyRender = TRUE]
    /\ renderWorld' = [renderWorld EXCEPT !.prepare_registered = TRUE]
    /\ node' = Some([matched |-> renderWorld.view_archetype])
    /\ graph' = graph \cup {"my_render"}
    /\ pc' = "built"
    /\ UNCHANGED <<panicAt, frame, platform, shader, cache, device, view, pass,
                   log, submitted, built, env>>

\* Plugin::finish: init_resource::<MyRenderPipeline>() calls from_world when
\* the resource is absent
Finish ==
    /\ pc = "built"
    /\ LET r == from_world(device, cache, platform)
       IN  /\ device' = r.device
           /\ cache' = r.cache
           /\ renderWorld' = [renderWorld EXCEPT !.pipeline = Some(r.resource)]
           /\ built' = Append(built, r.resource)
    /\ shader' = IF shader = "unrequested" THEN "loading" ELSE shader
    /\ pc' = "main"
    /\ UNCHANGED <<panicAt, frame, platform, mainWorld, graph, node, view, pass,
                   log, submitted, env>>

----------------------------------------------------------------------------
(* setup, and the host's schedule of one frame *)

\* setup: spawns one camera
setup(mw) == [mw EXCEPT !.cameras = @ + 1]

\* the main schedule; its first run runs the Startup systems first
MainUpdate ==
    /\ pc = "main"
    /\ frame < MaxFrames
    /\ frame' = frame + 1
    /\ mainWorld' =
         IF ~mainWorld.started
         THEN [(IF env.setup THEN setup(mainWorld) ELSE mainWorld)
                  EXCEPT !.started = TRUE]
         ELSE mainWorld
    /\ pc' = "extract"
    /\ UNCHANGED <<panicAt, platform, shader, cache, device, renderWorld, graph,
                   node, view, pass, log, submitted, built, env>>

\* extraction: ExtractResourcePlugin::<MyRender> clones the resource, and the
\* host gives every camera a view target for the frame
Extract ==
    /\ pc = "extract"
    /\ renderWorld' =
         [renderWorld EXCEPT
            !.MyRender = @ \/ mainWorld.MyRender,
            !.view_targets = mainWorld.cameras,
            !.view_archetype = @ \/ mainWorld.cameras > 0]
    /\ pc' = "prepare"
    /\ UNCHANGED <<panicAt, frame, platform, shader, cache, device, mainWorld,
                   graph, node, view, pass, log, submitted, built, env>>

\* RenderSet::Prepare and its flush: prepare_bind_group runs when registered;
\* its Res parameters must exist
Prepare ==
    /\ pc = "prepare"
    /\ IF ~renderWorld.prepare_registered
       THEN pc' = "process_queue" /\ UNCHANGED <<panicAt, device, renderWorld>>
       ELSE IF ~renderWorld.MyRender \/ ~IsSome(renderWorld.pipeline)
       THEN Panic("prepare_bind_group") /\ UNCHANGED <<device, renderWorld>>
       ELSE LET r == prepare_bind_group(device, renderWorld)
            IN  /\ device' = r.device
                /\ renderWorld' = r.renderWorld
                /\ pc' = "process_queue"
                /\ UNCHANGED panicAt
    /\ UNCHANGED <<frame, platform, shader, cache, mainWorld, graph, node, view,
                   pass, log, submitted, built, env>>

\* the pipeline cache processes its queue before the graph runs
ProcessQueue ==
    /\ pc = "process_queue"
    /\ cache' = process_queue(cache, shader)
    /\ pc' = "node_update"
    /\ UNCHANGED <<panicAt, frame, platform, shader, device, mainWorld,
                   renderWorld, graph, node, view, pass, log, submitted, built, env>>

\* the asset server finishes loading shader.wgsl, at any time
ShaderLoaded ==
    /\ pc # "panicked"
    /\ shader = "loading"
    /\ shader' = "loaded"
    /\ UNCHANGED <<pc, panicAt, frame, platform, cache, device, mainWorld,
                   renderWorld, graph, node, view, pass, log, submitted, built, env>>

\* the host submits the frame's commands and clears the render world's entities
Cleanup ==
    /\ pc = "cleanup"
    /\ submitted' = submitted + 1
    /\ log' = <<>>
    /\ view' = None
    /\ renderWorld' = [renderWorld EXCEPT !.view_targets = 0]
    /\ pc' = "main"
    /\ UNCHANGED <<panicAt, frame, platform, shader, cache, device, mainWorld,
                   graph, node, pass, built, env>>

----------------------------------------------------------------------------
(* MyRenderNode *)

\* Node::update: update_archetypes makes the query see the archetypes that exist
NodeUpdate ==
    /\ pc = "node_update"
    /\ node' = IF "my_render" \in graph
               THEN Some([matched |-> renderWorld.view_archetype])
               ELSE node
    /\ pc' = "run_resources"
    /\ UNCHANGED <<panicAt, frame, platform, shader, cache, device, mainWorld,
                   renderWorld, graph, view, pass, log, submitted, built, env>>

\* the view targets view_target_query.iter_manual(world) yields
ViewsSeen == IF Unwrap(node).matched THEN renderWorld.view_targets ELSE 0

\* mutant: the pass keeps what the target holds instead of clearing it
MyRenderPassDescriptorLoad(v) ==
    [ kind |-> "begin_render_pass",
      label |-> "my_render_pass",
      color_attachments |->
        << Some([ view |-> v,
                  ops |-> [ load |-> [op |-> "Load", color |-> ColorBLACK],
                            store |-> TRUE ] ]) >>,
      depth_stencil_attachment |-> None ]

\* the RenderPassDescriptor of run
MyRenderPassDescriptor(v) ==
    [ kind |-> "begin_render_pass",
      label |-> "my_render_pass",
      color_attachments |->
        << Some([ view |-> v,
                  ops |-> [ load |-> [op |-> "Clear", color |-> ColorBLACK],
                            store |-> TRUE ] ]) >>,
      depth_stencil_attachment |-> None ]

\* pass.set_vertex_buffer(0, vertex_buffer.slice(..))
SetVertexBufferCommand(b, open) ==
    [kind |-> "set_vertex_buffer", slot |-> 0, buffer |-> b, in_pass |-> open]

\* pass.set_bind_group(0, bind_group, &[])
SetBindGroupCommand(g, open) ==
    [ kind |-> "set_bind_group", index |-> 0, bind_group |-> g,
      offsets |-> <<>>, in_pass |-> open ]

\* pass.set_pipeline(render_pipeline)
SetPipelineCommand(d, open) ==
    [kind |-> "set_pipeline", pipeline |-> d, in_pass |-> open]

\* mutant: a draw of four vertices
DrawCommandFour(open) ==
    [ kind |-> "draw", indexed |-> FALSE, vertices |-> Range(0, 4),
      instances |-> Range(0, 1), in_pass |-> open ]

\* pass.draw(0..3, 0..1)
DrawCommand(open) ==
    [ kind |-> "draw", indexed |-> FALSE, vertices |-> Range(0, 3),
      instances |-> Range(0, 1), in_pass |-> open ]

\* run, lines 183-188: the three world.resource() lookups
RunResources ==
    /\ pc = "run_resources"
    /\ IF ~IsSome(renderWorld.bindings)
       THEN Panic("resource::<MyRenderBindings>")
       ELSE IF ~IsSome(renderWorld.pipeline)
       THEN Panic("resource::<MyRenderPipeline>")
       ELSE pc' = "run_view" /\ UNCHANGED panicAt
    /\ UNCHANGED <<frame, platform, shader, cache, device, mainWorld,
                   renderWorld, graph, node, view, pass, log, submitted, built, env>>

\* mutant: the first view target is taken and the assertion is left out
RunViewNoAssert ==
    /\ pc = "run_view"
    /\ IF ViewsSeen = 0
       THEN Panic("views.next().unwrap()") /\ UNCHANGED view
       ELSE pc' = "run_begin_pass" /\ view' = Some(1) /\ UNCHANGED panicAt
    /\ UNCHANGED <<frame, platform, shader, cache, device, mainWorld,
                   renderWorld, graph, node, pass, log, submitted, built, env>>

\* run, lines 190-195: the single view target
RunView ==
    /\ pc = "run_view"
    /\ IF ViewsSeen = 0
       THEN Panic("views.next().unwrap()") /\ UNCHANGED view
       ELSE IF ViewsSeen > 1
       THEN Panic("assert!(views.next().is_none())") /\ UNCHANGED view
       ELSE pc' = "run_begin_pass" /\ view' = Some(1) /\ UNCHANGED panicAt
    /\ UNCHANGED <<frame, platform, shader, cache, device, mainWorld,
                   renderWorld, graph, node, pass, log, submitted, built, env>>

\* run, lines 197-206: begin_render_pass
RunBeginPass ==
    /\ pc = "run_begin_pass"
    /\ Record(MyRenderPassDescriptor(Unwrap(view)))
    /\ pass' = [open |-> TRUE]
    /\ pc' = "run_set_vertex_buffer"
    /\ UNCHANGED <<panicAt, frame, platform, shader, cache, device, mainWorld,
                   renderWorld, graph, node, view, submitted, built, env>>

\* run, line 208
RunSetVertexBuffer ==
    /\ pc = "run_set_vertex_buffer"
    /\ Record(SetVertexBufferCommand(Unwrap(renderWorld.bindings).vertex_buffer,
                                     pass.open))
    /\ pc' = "run_set_bind_group"
    /\ UNCHANGED <<panicAt, frame, platform, shader, cache, device, mainWorld,
                   renderWorld, graph, node, view, pass, submitted, built, env>>

\* run, line 209
RunSetBindGroup ==
    /\ pc = "run_set_bind_group"
    /\ Record(SetBindGroupCommand(Unwrap(renderWorld.bindings).bind_group,
                                  pass.open))
    /\ pc' = "run_set_pipeline"
    /\ UNCHANGED <<panicAt, frame, platform, shader, cache, device, mainWorld,
                   renderWorld, graph, node, view, pass, submitted, built, env>>

\* mutant: an unresolved pipeline ends run early with Ok(())
RunSetPipelineSkip ==
    /\ pc = "run_set_pipeline"
    /\ LET got == get_render_pipeline(cache, Unwrap(renderWorld.pipeline).render_pipeline)
       IN  IF ~IsSome(got)
           THEN /\ Record([kind |-> "end_render_pass", in_pass |-> pass.open])
                /\ pass' = [open |-> FALSE]
                /\ pc' = "cleanup"
           ELSE /\ Record(SetPipelineCommand(Unwrap(got), pass.open))
                /\ pc' = "run_draw"
                /\ UNCHANGED pass
    /\ UNCHANGED <<panicAt, frame, platform, shader, cache, device, mainWorld,
                   renderWorld, graph, node, view, submitted, built, env>>

\* run, lines 211-214: get_render_pipeline(..).unwrap(), then set_pipeline
RunSetPipeline ==
    /\ pc = "run_set_pipeline"
    /\ LET got == get_render_pipeline(cache, Unwrap(renderWorld.pipeline).render_pipeline)
       IN  IF ~IsSome(got)
           THEN Panic("get_render_pipeline(..).unwrap()") /\ UNCHANGED log
           ELSE /\ Record(SetPipelineCommand(Unwrap(got), pass.open))
                /\ pc' = "run_draw"
                /\ UNCHANGED panicAt
    /\ UNCHANGED <<frame, platform, shader, cache, device, mainWorld,
                   renderWorld, graph, node, view, pass, submitted, built, env>>

\* run, line 216
RunDraw ==
    /\ pc = "run_draw"
    /\ Record(DrawCommand(pass.open))
    /\ pc' = "run_return"
    /\ UNCHANGED <<panicAt, frame, platform, shader, cache, device, mainWorld,
                   renderWorld, graph, node, view, pass, submitted, built, env>>

\* mutant: the pass is leaked instead of dropped
RunReturnLeakPass ==
    /\ pc = "run_return"
    /\ pc' = "cleanup"
    /\ UNCHANGED <<panicAt, frame, platform, shader, cache, device, mainWorld,
                   renderWorld, graph, node, view, pass, log, submitted, built, env>>

\* run, lines 218-219: Ok(()) and the end of the scope, where the pass is
\* dropped, which ends it
RunReturn ==
    /\ pc = "run_return"
    /\ Record([kind |-> "end_render_pass", in_pass |-> pass.open])
    /\ pass' = [open |-> FALSE]
    /\ pc' = "cleanup"
    /\ UNCHANGED <<panicAt, frame, platform, shader, cache, device, mainWorld,
                   renderWorld, graph, node, view, submitted, built, env>>

----------------------------------------------------------------------------
(* The program *)

Next ==
    \/ Build
    \/ Finish
    \/ MainUpdate
    \/ Extract
    \/ Prepare
    \/ ProcessQueue
    \/ ShaderLoaded
    \/ NodeUpdate
    \/ RunResources
    \/ RunView
    \/ RunBeginPass
    \/ RunSetVertexBuffer
    \/ RunSetBindGroup
    \/ RunSetPipeline
    \/ RunDraw
    \/ RunReturn
    \/ Cleanup

Spec == Init /\ [][Next]_vars

----------------------------------------------------------------------------
(* The plugin in any host application: other systems may have spawned      *)
(* cameras, and setup may not be among the Startup systems                 *)

InitHost ==
    /\ InitWorld("new")
    /\ env \in [cameras : 0..MaxEnvCameras, setup : BOOLEAN]
    /\ mainWorld = [MyRender |-> FALSE, cameras |-> env.cameras, started |-> FALSE]

SpecHost == InitHost /\ [][Next]_vars

----------------------------------------------------------------------------
(* MyRenderPipeline::from_world applied repeatedly to a render world, while *)
(* the host loads the shader and processes the pipeline queue              *)

InitPipeline ==
    /\ InitWorld("world")
    /\ env = [cameras |-> 0, setup |-> TRUE]
    /\ mainWorld = [MyRender |-> FALSE, cameras |-> 0, started |-> FALSE]

CallFromWorld ==
    /\ pc = "world"
    /\ Len(built) < MaxBuilds
    /\ LET r == from_world(device, cache, platform)
       IN  /\ device' = r.device
           /\ cache' = r.cache
           /\ renderWorld' = [renderWorld EXCEPT !.pipeline = Some(r.resource)]
           /\ built' = Append(built, r.resource)
    /\ shader' = IF shader = "unrequested" THEN "loading" ELSE shader
    /\ UNCHANGED <<pc, panicAt, frame, platform, mainWorld, graph, node, view,
                   pass, log, submitted, env>>

ProcessQueueWorld ==
    /\ pc = "world"
    /\ process_queue(cache, shader) # cache
    /\ cache' = process_queue(cache, shader)
    /\ UNCHANGED <<pc, panicAt, frame, platform, shader, device, mainWorld,
                   renderWorld, graph, node, view, pass, log, submitted, built, env>>

NextPipeline ==
    \/ CallFromWorld
    \/ ProcessQueueWorld
    \/ ShaderLoaded

SpecPipeline == InitPipeline /\ [][NextPipeline]_vars

----------------------------------------------------------------------------
(* Vocabulary of the properties *)

RunPcs == { "run_resources", "run_view", "run_begin_pass", "run_set_vertex_buffer",
            "run_set_bind_group", "run_set_pipeline", "run_draw", "run_return" }

AfterViewPcs == RunPcs \ {"run_resources", "run_view"}

PassCommands == << "begin_render_pass", "set_vertex_buffer", "set_bind_group",
                   "set_pipeline", "draw", "end_render_pass" >>

Kinds(l) == [i \in DOMAIN l |-> l[i].kind]

OfKind(l, k) == {i \in DOMAIN l : l[i].kind = k}

IsPrefix(a, b) == Len(a) <= Len(b) /\ a = SubSeq(b, 1, Len(a))

UnresolvedAbort == pc = "panicked" /\ panicAt = "get_render_pipeline(..).unwrap()"

\* the frames whose Prepare set has run
Prepared == IF pc \in {"extract", "prepare"} THEN frame - 1 ELSE frame

\* the bytes of a vertex buffer that a draw of the vertices r reads through
\* the buffer layout l
BytesRead(l, r) ==
    UNION { UNION { { v * l.array_stride + l.attributes[a].offset + k :
                        k \in 0..(FormatSize(l.attributes[a].format) - 1) } :
                    a \in DOMAIN l.attributes } :
            v \in r.start..(r.end - 1) }

----------------------------------------------------------------------------
(* C1 *)

\* C1: every run that completes has recorded exactly one draw, and every
\* draw recorded is non-indexed, of the vertices 0..3 (3 of them) and the
\* instances 0..1 (1 of them); no run records a second draw.
C1_OneDrawOfThreeVerticesOneInstance ==
    /\ \A i \in OfKind(log, "draw") :
         /\ ~log[i].indexed
         /\ log[i].vertices = [start |-> 0, end |-> 3]
         /\ RangeLen(log[i].vertices) = 3
         /\ log[i].instances = [start |-> 0, end |-> 1]
         /\ RangeLen(log[i].instances) = 1
    /\ Cardinality(OfKind(log, "draw")) <= 1
    /\ pc = "cleanup" => Cardinality(OfKind(log, "draw")) = 1

C1_Witness ==
    pc = "cleanup" /\ frame = 2 /\ Cardinality(OfKind(log, "draw")) = 1

----------------------------------------------------------------------------
(* C2 *)

\* C2: a run that finds the pipeline handle unresolved does not abort: the
\* program is never in the state where get_render_pipeline's result made run
\* panic.
C2_UnresolvedPipelineDoesNotAbort == ~UnresolvedAbort

----------------------------------------------------------------------------
(* C3 *)

\* C3: whenever run executes, from its first line on and in the first frame
\* too, the render world holds the MyRenderPipeline resource and the
\* MyRenderBindings resource with a vertex buffer and a bind group; neither
\* lookup of run and no parameter of prepare_bind_group ever fails.
C3_ResourcesExistWhenNodeRuns ==
    /\ pc \in RunPcs =>
         /\ IsSome(renderWorld.pipeline)
         /\ IsSome(renderWorld.bindings)
         /\ Unwrap(renderWorld.bindings).vertex_buffer.usage = "VERTEX"
         /\ Unwrap(renderWorld.bindings).bind_group.layout =
               Unwrap(renderWorld.pipeline).bind_group_layout
    /\ panicAt \notin { "resource::<MyRenderBindings>", "resource::<MyRenderPipeline>",
                        "prepare_bind_group" }

C3_Witness ==
    pc = "run_resources" /\ frame = 1 /\ IsSome(renderWorld.bindings)

----------------------------------------------------------------------------
(* C4 *)

\* C4 as claimed: the vertex buffer and the bind group are created one time
\* only, however many frames run.
C4_BindingsCreatedOnce == device.buffers <= 1 /\ device.bind_groups <= 1

\* C4 as amended: prepare_bind_group creates a vertex buffer and a bind group
\* in every frame's Prepare set, so after n frames' Prepare there have been n
\* of each; the MyRenderBindings resource holds the pair made in the current
\* frame, the buffer always holds the same 24 bytes, and the resource does not
\* change while the node runs.
C4_BindingsRecreatedEveryFrame ==
    /\ device.buffers = Prepared
    /\ device.bind_groups = Prepared
    /\ IsSome(renderWorld.bindings) <=> Prepared > 0
    /\ IsSome(renderWorld.bindings) =>
         /\ Unwrap(renderWorld.bindings).vertex_buffer.id = Prepared
         /\ Unwrap(renderWorld.bindings).bind_group.id = Prepared
         /\ Unwrap(renderWorld.bindings).vertex_buffer.contents =
               << 0, 0, 128, 191, 0, 0, 128, 191,
                  0, 0, 128, 63,  0, 0, 128, 191,
                  0, 0, 128, 63,  0, 0, 128, 63 >>
    /\ \A i \in OfKind(log, "set_vertex_buffer") :
         log[i].buffer = Unwrap(renderWorld.bindings).vertex_buffer
    /\ \A i \in OfKind(log, "set_bind_group") :
         log[i].bind_group = Unwrap(renderWorld.bindings).bind_group

C4_Witness ==
    /\ pc = "run_draw"
    /\ frame = 2
    /\ Unwrap(renderWorld.bindings).vertex_buffer.id = 2
    /\ log[2].buffer.id = 2

----------------------------------------------------------------------------
(* C5 *)

----------------------------------------------------------------------------
(* C6 *)

\* C6: every render pass opened has exactly one color attachment, whose load
\* operation clears to opaque black (0, 0, 0, 1) and whose store is enabled,
\* and has no depth-stencil attachment.
C6_PassClearsToOpaqueBlack ==
    \A i \in OfKind(log, "begin_render_pass") :
        /\ Len(log[i].color_attachments) = 1
        /\ IsSome(log[i].color_attachments[1])
        /\ Unwrap(log[i].color_attachments[1]).ops.load =
              [op |-> "Clear", color |-> [r |-> 0, g |-> 0, b |-> 0, a |-> 1]]
        /\ Unwrap(log[i].color_attachments[1]).ops.store = TRUE
        /\ log[i].depth_stencil_attachment = None

C6_Witness ==
    frame = 2 /\ OfKind(log, "begin_render_pass") = {1}

----------------------------------------------------------------------------
(* C7 *)

\* the descriptor the cache holds for a handle from_world returned
Queued(r) == cache[r.render_pipeline + 1].descriptor

TargetFormats(d) ==
    [i \in DOMAIN Unwrap(d.fragment).targets |-> Unwrap(Unwrap(d.fragment).targets[i]).format]

FunctionallyEquivalent(d, e) ==
    /\ d.vertex.buffers = e.vertex.buffers
    /\ d.primitive.topology = e.primitive.topology
    /\ TargetFormats(d) = TargetFormats(e)

\* C7: any two calls of from_world return different handles whose queued
\* descriptors are functionally equivalent: the same vertex layout (stride 8,
\* per-vertex step, one Float32x2 attribute at offset 0 and location 0), the
\* same triangle-strip topology and the same single color target format,
\* whatever the cache held and whatever was compiled in between.
C7_FromWorldIsIdempotent ==
    \A i, j \in DOMAIN built :
        i # j =>
          /\ built[i].render_pipeline # built[j].render_pipeline
          /\ FunctionallyEquivalent(Queued(built[i]), Queued(built[j]))
          /\ Queued(built[i]).vertex.buffers =
                << [ array_stride |-> 8, step_mode |-> "Vertex",
                     attributes |-> << [ format |-> "Float32x2", offset |-> 0,
                                         shader_location |-> 0 ] >> ] >>
          /\ Queued(built[i]).primitive.topology = "TriangleStrip"
          /\ Len(TargetFormats(Queued(built[i]))) = 1

C7_Witness ==
    /\ Len(built) >= 2
    /\ cache[built[1].render_pipeline + 1].state = "Ok"
    /\ cache[built[2].render_pipeline + 1].state = "Queued"

----------------------------------------------------------------------------
(* C8 *)

\* C8: the commands of a run are recorded in the order begin_render_pass,
\* set_vertex_buffer, set_bind_group, set_pipeline, draw, end of pass, the
\* color target having been acquired before the pass is opened; every bind
\* and the draw are recorded while the pass is open; a pass is open only
\* inside run; when run has returned the whole sequence has been recorded and
\* the pass is closed, in every frame.
C8_CommandsInOrderInsideThePass ==
    /\ IsPrefix(Kinds(log), PassCommands)
    /\ \A i \in DOMAIN log : i > 1 => log[i].in_pass
    /\ log # <<>> => IsSome(view) /\ Unwrap(log[1].color_attachments[1]).view = Unwrap(view)
    /\ pass.open <=> (Len(log) \in 1..5)
    /\ pass.open => pc \in RunPcs \cup {"panicked"}
    /\ pc = "run_draw" => Kinds(log) = SubSeq(PassCommands, 1, 4)
    /\ pc = "cleanup" => Kinds(log) = PassCommands /\ ~pass.open
    /\ pc \notin RunPcs \cup {"cleanup", "panicked"} => log = <<>>

C8_Witness ==
    pc = "cleanup" /\ frame = 3 /\ submitted = 2 /\ Kinds(log) = PassCommands

----------------------------------------------------------------------------
(* C9 *)

\* C9: run gets past its view lookup only when the render world holds exactly
\* one view target, and then draws to that one; with none it aborts on the
\* unwrap and with two or more on the assertion, in both cases before a pass
\* is opened.  When the only camera is the one setup spawns, the render world
\* holds exactly one view target whenever the node runs.
C9_RunsOnlyWithExactlyOneViewTarget ==
    /\ pc \in AfterViewPcs \cup {"cleanup"} =>
         renderWorld.view_targets = 1 /\ view = Some(1)
    /\ panicAt = "views.next().unwrap()" =>
         renderWorld.view_targets = 0 /\ log = <<>> /\ ~pass.open
    /\ panicAt = "assert!(views.next().is_none())" =>
         renderWorld.view_targets >= 2 /\ log = <<>> /\ ~pass.open
    /\ Cardinality(OfKind(log, "begin_render_pass")) <= 1
    /\ (env.setup /\ env.cameras = 0 /\ pc \in RunPcs) => renderWorld.view_targets = 1

C9_Witness ==
    /\ pc = "cleanup"
    /\ frame = 2
    /\ env = [cameras |-> 0, setup |-> TRUE]
    /\ renderWorld.view_targets = 1

\* the two aborts of C9 happen
C9_AbortOnNoView == panicAt = "views.next().unwrap()" /\ mainWorld.cameras = 0
C9_AbortOnTwoViews == panicAt = "assert!(views.next().is_none())" /\ mainWorld.cameras = 2

----------------------------------------------------------------------------
(* C10 *)

\* C10: the uploaded vertex buffer is 24 bytes, which is the bound
\* pipeline's array stride (8) times the number of vertices drawn (3), and
\* the draw reads, through the pipeline's vertex layout, exactly the bytes
\* 0..23 of it: none outside the buffer, and every one inside.
C10_DrawReadsExactlyTheBuffer ==
    /\ IsSome(renderWorld.bindings) =>
         Len(Unwrap(renderWorld.bindings).vertex_buffer.contents) = 24
    /\ \A i \in OfKind(log, "draw") :
         LET buffer == log[2].buffer.contents
             layout == log[4].pipeline.vertex.buffers[log[2].slot + 1]
         IN  /\ Len(buffer) = 24
             /\ layout.array_stride = 8
             /\ Len(buffer) = layout.array_stride * RangeLen(log[i].vertices)
             /\ BytesRead(layout, log[i].vertices) = 0..(Len(buffer) - 1)

C10_Witness ==
    /\ pc = "run_return"
    /\ BytesRead(log[4].pipeline.vertex.buffers[1], log[5].vertices) = 0..23

====
